---- MODULE Spec2Model ----
(***************************************************************************)
(* Model of the droxion-backend webhook servers and the free image search. *)
(*                                                                         *)
(* Spec     the five webhook servers and their store files                 *)
(* SpecPaid the same with the servers' POST /check-paid endpoints          *)
(* SpecImg  one call of searchImagesFree                                   *)
(* SpecApi  one request at the images intent or at a checkout session      *)
(*          endpoint                                                       *)
(*                                                                         *)
(* The repository holds five Stripe webhook servers (near-duplicates).     *)
(* Each one is a Node process of its own (each calls app.listen); four of  *)
(* them persist to users.json in process.cwd(), one to paid_users.json.    *)
(* A Node process runs a handler to completion (the handlers contain no    *)
(* await between the file read and the file write), so one process has at  *)
(* most one request between its read and its write; different processes    *)
(* interleave at the granularity of their file-system calls.               *)
(***************************************************************************)
EXTENDS Integers, Sequences, FiniteSets, TLC

\* ---------------------------------------------------------------- bounds
MaxDeliveries == 2
MaxQueryLen == 3
MaxLexicaImages == 2
BigResponseLen == 25

\* ------------------------------------------------------------- processes
DockerCoins == "DockerCoins"
DockerPaid == "DockerPaid"
ServerJs == "ServerJs"
EmailKeyed == "EmailKeyed"
IdKeyed == "IdKeyed"

Servers == {DockerCoins, DockerPaid, ServerJs, EmailKeyed, IdKeyed}

\* handlers declared `async (req, res) =>`
AsyncHandlers == {ServerJs, EmailKeyed, IdKeyed}

USER_DB_PATH == "users.json"
PAID_USERS_PATH == "paid_users.json"
Paths == {USER_DB_PATH, PAID_USERS_PATH}

StorePath(s) == IF s = ServerJs THEN PAID_USERS_PATH ELSE USER_DB_PATH

\* ---------------------------------------------------------------- events
NoId == "<none>"
NoPlan == "<noplan>"
Completed == "checkout.session.completed"
OtherType == "payment_intent.succeeded"

UserIds == {"u1"}
Emails == {"e1"}
PlanNames == {"pro", "business", "gold"}

\* The checkout session inside a checkout.session.completed event:
\* metadata.user_id, customer_email and metadata.plan, each possibly missing.
Sessions ==
  [user_id : UserIds \cup {NoId}, email : Emails \cup {NoId}, plan : PlanNames \cup {NoPlan}]

BlankSession == [user_id |-> NoId, email |-> NoId, plan |-> NoPlan]

FullSession == [user_id |-> "u1", email |-> "e1", plan |-> "pro"]

\* A first delivery of an event: its type and session, and whether the
\* stripe-signature header verifies.  Every first delivery is an event of
\* its own (Stripe ids are unique); the same event arrives again only
\* through Redeliver.
Requests ==
  { [sig |-> TRUE, type |-> Completed, session |-> x] : x \in Sessions }
  \cup { [sig |-> TRUE, type |-> OtherType, session |-> x] : x \in {BlankSession, FullSession} }
  \cup { [sig |-> FALSE, type |-> Completed, session |-> x] : x \in {BlankSession, FullSession} }

\* --------------------------------------------------------------- records
\* A JSON object stored under a key.  ck is the kind of its coins member:
\* "undef" (no member), "null" (NaN serialised by JSON.stringify) or "num".
NoRec == [exists |-> FALSE, ck |-> "undef", coins |-> 0, plan |-> "<undef>", paid |-> FALSE, date |-> 0]

Keys == UserIds \cup Emails \cup {"", "unknown", "null", NoId}

EmptyUsers == [k \in Keys |-> NoRec]

FileAbsent == [st |-> "absent", data |-> EmptyUsers]
FileCorrupt == [st |-> "corrupt", data |-> EmptyUsers]
FileOk(users) == [st |-> "ok", data |-> users]

VARIABLES fs, pc, loc, mem, alive, clock, lastOutcome, lastWrite, applied,
          imgPc, imgQuery, imgLexica, imgResult, ri, co, lastCheck, acked

\* the webhook servers' variables and the image search's
hookVars == <<fs, pc, loc, mem, alive, clock, lastOutcome, lastWrite, applied, lastCheck, acked>>
imgVars == <<imgPc, imgQuery, imgLexica, imgResult>>

\* the images intent's request (ri) and the checkout session request (co)
apiVars == <<ri, co>>

vars == <<fs, pc, loc, mem, alive, clock, lastOutcome, lastWrite, applied,
          imgPc, imgQuery, imgLexica, imgResult, ri, co, lastCheck, acked>>

\* ------------------------------------------------------- handler helpers
\* a verification that accepts every signature
constructEventAlways(r) == TRUE

\* stripe.webhooks.constructEvent returns the event iff the signature
\* verifies, and throws otherwise
constructEvent(r) == r.sig

\* a type test that takes every event for a completed checkout
isCheckoutCompletedAlways(r) == TRUE

\* event.type === "checkout.session.completed"
isCheckoutCompleted(r) == r.type = Completed

\* Dockerfile: session.metadata?.user_id || ""
userIdOrEmpty(r) == IF r.session.user_id = NoId THEN "" ELSE r.session.user_id

\* part_000: session.metadata?.user_id || "unknown"
userIdOrUnknown(r) == IF r.session.user_id = NoId THEN "unknown" ELSE r.session.user_id

\* part_000: session.customer_email used as a property key (null -> "null")
customerEmail(r) == IF r.session.email = NoId THEN "null" ELSE r.session.email

\* the key under which handler s stores the session's user
KeyOf(s, r) ==
  CASE s = DockerCoins -> userIdOrEmpty(r)
    [] s = DockerPaid -> userIdOrEmpty(r)
    [] s = ServerJs -> r.session.user_id
    [] s = EmailKeyed -> customerEmail(r)
    [] s = IdKeyed -> userIdOrUnknown(r)

\* the event carries no identity for handler s
Anonymous(s, r) ==
  IF s = EmailKeyed THEN r.session.email = NoId ELSE r.session.user_id = NoId

\* handlers that read session.metadata.plan
ReadsPlan == {DockerCoins, EmailKeyed, IdKeyed}

\* session.metadata?.plan || "pro"
planOf(r) == IF r.session.plan = NoPlan THEN "pro" ELSE r.session.plan

\* What a handler holds of the request once the event is parsed: its key
\* and plan.  The other fields are history, not program state: the
\* delivery's signature and type, whether it lacks an identity, whether it
\* is a redelivery (no handler reads the event id), and the reads and
\* writes of the store file made so far for it.
Locals(s, r) ==
  [key |-> KeyOf(s, r), plan |-> IF s \in ReadsPlan THEN planOf(r) ELSE "<unread>",
   anon |-> Anonymous(s, r), retry |-> FALSE, sig |-> r.sig, type |-> r.type,
   reads |-> 0, writes |-> 0]

\* a request answered before its session is looked at
Unparsed(r) ==
  [key |-> "", plan |-> "<unread>", anon |-> FALSE, retry |-> FALSE, sig |-> r.sig,
   type |-> r.type, reads |-> 0, writes |-> 0]

NoLocals ==
  [key |-> "", plan |-> "<unread>", anon |-> FALSE, retry |-> FALSE, sig |-> TRUE,
   type |-> OtherType, reads |-> 0, writes |-> 0]

\* Dockerfile: let coins = 0; if (plan === "starter") coins = 50; ...
coins(plan) ==
  IF plan = "starter" THEN 50
  ELSE IF plan = "pro" THEN 150
  ELSE IF plan = "business" THEN 400
  ELSE 0

\* part_000: let coinsToAdd = 0; if (plan === "starter") coinsToAdd = 50; ...
coinsToAdd(plan) ==
  IF plan = "starter" THEN 50
  ELSE IF plan = "pro" THEN 150
  ELSE IF plan = "business" THEN 400
  ELSE 0

\* Dockerfile 69-81
applyCoins(users, l) ==
  LET r0 == IF users[l.key].exists THEN users[l.key]
            ELSE [NoRec EXCEPT !.exists = TRUE, !.ck = "num", !.coins = 0, !.plan = "none"]
      old == IF r0.ck = "num" THEN r0.coins ELSE 0      \* (coins || 0)
  IN [users EXCEPT ![l.key] = [r0 EXCEPT !.paid = TRUE, !.plan = l.plan,
                                         !.ck = "num", !.coins = old + coins(l.plan)]]

\* Dockerfile 207: users[userId] = { paid: true }
applyPaidOnly(users, l) ==
  [users EXCEPT ![l.key] = [NoRec EXCEPT !.exists = TRUE, !.paid = TRUE]]

\* server.js 49: paidUsers[user_id] = { paid: true, date: new Date().toISOString() }
applyServerJs(users, l, now) ==
  [users EXCEPT ![l.key] = [NoRec EXCEPT !.exists = TRUE, !.paid = TRUE, !.date = now]]

\* users[k].coins += coinsToAdd: undefined + n is NaN (stored as null),
\* null + n is n
plusEquals(rec, n) ==
  CASE rec.ck = "num" -> [rec EXCEPT !.coins = rec.coins + n]
    [] rec.ck = "null" -> [rec EXCEPT !.ck = "num", !.coins = n]
    [] rec.ck = "undef" -> [rec EXCEPT !.ck = "null", !.coins = 0]

\* part_000 85-95 and 156-166
applyKeyed(users, l) ==
  LET r0 == IF users[l.key].exists THEN users[l.key]
            ELSE [NoRec EXCEPT !.exists = TRUE, !.ck = "num", !.coins = 0, !.plan = "None"]
  IN [users EXCEPT ![l.key] = [plusEquals(r0, coinsToAdd(l.plan)) EXCEPT !.plan = l.plan]]

Apply(s, users, l, now) ==
  CASE s = DockerCoins -> applyCoins(users, l)
    [] s = DockerPaid -> applyPaidOnly(users, l)
    [] s = ServerJs -> applyServerJs(users, l, now)
    [] s = EmailKeyed -> applyKeyed(users, l)
    [] s = IdKeyed -> applyKeyed(users, l)

\* server.js 38: if (!user_id) return res.status(400).send("Missing user_id")
MissingUserId(s, r) == s = ServerJs /\ r.session.user_id = NoId

\* What becomes of an exception thrown inside the handler.  A synchronous
\* handler's throw is caught by the Express router and answered 500.  An
\* async handler's rejection is forwarded as a 500 by Express 5, is left
\* unhandled by Express 4 (the request is never answered), and an unhandled
\* rejection terminates the process on Node 15+.  The repository pins
\* neither version.
ThrowOutcomes(s) ==
  IF s \in AsyncHandlers THEN {"error500", "hung", "crashed"} ELSE {"error500"}

\* The outcome of the request handled last: the handler, the request as
\* the handler held it (req), the response status (0: none sent) and what
\* kind of outcome it was.
Outcome(s, l, status, kind) == [srv |-> s, req |-> l, status |-> status, kind |-> kind]

NoOutcome == Outcome("<none>", NoLocals, 0, "none")

\* handlers that credit coins
CoinHandlers == {DockerCoins, EmailKeyed, IdKeyed}

\* handlers that set the paid flag
PaidHandlers == {DockerCoins, DockerPaid, ServerJs}

CoinDelta(s, l) == IF s = DockerCoins THEN coins(l.plan) ELSE coinsToAdd(l.plan)

\* Delivery history for the concurrency property: whether the deliveries
\* applied so far are all of distinct events (no redelivery) crediting the
\* same key with the same amount, and how many they are.
NoBatch == [uniform |-> TRUE, n |-> 0, key |-> "", d |-> 0]
BrokenBatch == [uniform |-> FALSE, n |-> 0, key |-> "", d |-> 0]

Batched(b, s, l) ==
  IF ~b.uniform \/ s \notin CoinHandlers \/ l.retry THEN BrokenBatch
  ELSE IF b.n = 0 THEN [uniform |-> TRUE, n |-> 1, key |-> l.key, d |-> CoinDelta(s, l)]
  ELSE IF b.key = l.key /\ b.d = CoinDelta(s, l) THEN [b EXCEPT !.n = b.n + 1]
  ELSE BrokenBatch

\* the servers with a POST /check-paid endpoint (Dockerfile 94 and 217,
\* server.js 61)
CheckServers == {DockerCoins, DockerPaid, ServerJs}

\* The answer of POST /check-paid for the body's user_id and the store
\* file as it is: 400 without a user_id, 500 when JSON.parse throws (the
\* handler is synchronous), else {paid: users[user_id]?.paid === true}.
\* wasAcked and hadRecord are history: whether a delivery for a user was
\* acknowledged on this store before, and whether the user had a record.
checkPaid(s, user_id, file, wasAcked) ==
  LET status == IF user_id = NoId THEN 400 ELSE IF file.st = "corrupt" THEN 500 ELSE 200
      rec == IF user_id = NoId THEN NoRec ELSE file.data[user_id]
  IN [path |-> StorePath(s), user |-> user_id, status |-> status,
      paid |-> (status = 200 /\ file.st = "ok" /\ rec.exists /\ rec.paid),
      wasAcked |-> (user_id # NoId /\ wasAcked),
      hadRecord |-> (file.st = "ok" /\ rec.exists)]

NoCheck ==
  [path |-> USER_DB_PATH, user |-> NoId, status |-> 0, paid |-> FALSE, wasAcked |-> FALSE,
   hadRecord |-> FALSE]

\* the event whose write is the latest one made to a store file
NoWrite == [srv |-> "<none>", loc |-> NoLocals]

\* ---------------------------------------------------------- image search
\* server/imageSearch_free.js.  A query is a sequence of characters; text
\* built from it is a sequence of tokens, a URL a record of its parts.
\* A high surrogate that no low surrogate follows stands for the strings
\* that are not well-formed UTF-16 (JSON.parse yields one from "\ud800").
LoneSurrogate == "\\uD800"

Chars == {" ", "a", LoneSurrogate}

Queries == UNION { [1..n -> Chars] : n \in 0..MaxQueryLen }

RECURSIVE TrimStart(_)
TrimStart(s) == IF s # <<>> /\ Head(s) = " " THEN TrimStart(Tail(s)) ELSE s

RECURSIVE TrimEnd(_)
TrimEnd(s) ==
  IF s # <<>> /\ s[Len(s)] = " " THEN TrimEnd(SubSeq(s, 1, Len(s) - 1)) ELSE s

\* String.prototype.trim
Trim(s) == TrimEnd(TrimStart(s))

\* const q = String(query || "").trim() || "image"
NormalizeQuery(query) == IF Trim(query) = <<>> THEN <<"image">> ELSE Trim(query)

\* the value standing for a URIError ("URI malformed") thrown
URIError == <<"URIError">>

WellFormed(s) == \A i \in 1..Len(s) : s[i] # LoneSurrogate

\* encodeURIComponent: a space becomes %20, letters stay, and a lone
\* surrogate makes it throw a URIError
encodeURIComponent(s) ==
  IF WellFormed(s) THEN [i \in 1..Len(s) |-> IF s[i] = " " THEN "%20" ELSE s[i]]
  ELSE URIError

\* const LEXICA = (q) => `https://lexica.art/api/v1/search?q=${encodeURIComponent(q)}`
LEXICA(q) ==
  IF encodeURIComponent(q) = URIError THEN URIError
  ELSE <<"https://lexica.art/api/v1/search?q=">> \o encodeURIComponent(q)

\* the ten keyword variants of buildUnsplashFallback
alts(q) ==
  << q, q \o <<" ", "photo">>, q \o <<" ", "image">>, q \o <<" ", "wallpaper">>,
     q \o <<" ", "aesthetic">>, q \o <<" ", "hd">>, q \o <<" ", "landscape">>,
     q \o <<" ", "portrait">>, q \o <<" ", "macro">>, q \o <<" ", "art">> >>

\* out.push(`https://source.unsplash.com/900x600/?${kw}&sig=${i + 13}`), i = 0..n-1
buildUnsplashFallback(q, n) ==
  [j \in 1..n |->
     [base |-> "https://source.unsplash.com/900x600/?",
      arg |-> encodeURIComponent(alts(q)[((j - 1) % Len(alts(q))) + 1]),
      sig |-> (j - 1) + 13]]

\* A member of a Lexica image object that is missing or falsy.
Missing == 0

\* a pick that looks at src alone
imageUrlOfSrcOnly(im) == im.src

\* im?.src || im?.imageUrl || im?.jpeg || im?.png
imageUrlOf(im) ==
  IF im.src # Missing THEN im.src
  ELSE IF im.imageUrl # Missing THEN im.imageUrl
  ELSE IF im.jpeg # Missing THEN im.jpeg
  ELSE im.png

\* the images from index i on, mapped to normalised records, the ones
\* without a url dropped
RECURSIVE normalizeFrom(_, _, _)
normalizeFrom(images, q, i) ==
  IF i > Len(images) THEN <<>>
  ELSE LET im == images[i]
           url == imageUrlOf(im)
       IN (IF url = Missing THEN <<>>
           ELSE << [url |-> url,
                    pageUrl |-> IF im.id # Missing
                                  THEN [base |-> "https://lexica.art/prompt/", arg |-> <<im.id>>]
                                  ELSE [base |-> "https://lexica.art/?q=", arg |-> encodeURIComponent(q)],
                    title |-> IF im.prompt # Missing THEN <<im.prompt>> ELSE q,
                    source |-> "lexica.art"] >>)
          \o normalizeFrom(images, q, i + 1)

\* images.map(...).filter(Boolean)
normalizeLexica(images, q) == normalizeFrom(images, q, 1)

SourceLink(title, base, q) ==
  [title |-> title, url |-> [base |-> base, arg |-> encodeURIComponent(q)]]

LexicaLink(q) == SourceLink("Lexica", "https://lexica.art/?q=", q)
GoogleLink(q) == SourceLink("Google Images", "https://www.google.com/search?tbm=isch&q=", q)
BingLink(q) == SourceLink("Bing Images", "https://www.bing.com/images/search?q=", q)
UnsplashLink(q) == SourceLink("Unsplash", "https://unsplash.com/s/photos/", q)

\* the number of fallback images searchImagesFree asks for
UnsplashCount == 12

\* a fallback that builds no image
unsplashImagesNone(q) == <<>>

\* imageSearch_free.js 76-81
unsplashImages(q) ==
  LET u == buildUnsplashFallback(q, UnsplashCount)
  IN [j \in 1..Len(u) |->
        [url |-> u[j],
         pageUrl |-> [base |-> "https://unsplash.com/s/photos/", arg |-> encodeURIComponent(q)],
         title |-> q,
         source |-> "unsplash.com"]]

\* The outcome of the Lexica fetch: the call throws, answers non-2xx,
\* answers 2xx with a body that is no JSON, or answers 2xx with JSON whose
\* images member is an array (isArray) or is not.
LexicaItem(src, imageUrl, jpeg, png, id, prompt) ==
  [src |-> src, imageUrl |-> imageUrl, jpeg |-> jpeg, png |-> png, id |-> id, prompt |-> prompt]

LexicaItems ==
  { LexicaItem(1, Missing, Missing, Missing, 7, 9),
    LexicaItem(1, 2, Missing, Missing, 8, Missing),
    LexicaItem(Missing, 2, Missing, Missing, Missing, 9),
    LexicaItem(Missing, Missing, 3, 4, Missing, Missing),
    LexicaItem(Missing, Missing, Missing, 4, 7, Missing),
    LexicaItem(Missing, Missing, Missing, Missing, 7, 9) }

\* a response of n images with the urls 1..n
BigResponse(n) == [i \in 1..n |-> LexicaItem(i, Missing, Missing, Missing, i, Missing)]

LexicaBodies ==
  UNION { [1..n -> LexicaItems] : n \in 0..MaxLexicaImages } \cup {BigResponse(BigResponseLen)}

LexicaOk(images) == [kind |-> "ok", isArray |-> TRUE, images |-> images]

LexicaOutcomes ==
  { [kind |-> k, isArray |-> FALSE, images |-> <<>>] : k \in {"throws", "non2xx", "badjson", "ok"} }
  \cup { LexicaOk(b) : b \in LexicaBodies }

\* the call that raised an exception to its caller
Threw == [threw |-> TRUE, images |-> <<>>, sources |-> <<>>]

Returned(images, sources) == [threw |-> FALSE, images |-> images, sources |-> sources]

\* imageSearch_free.js 75-91: the Unsplash Source block.  Its first
\* encodeURIComponent (buildUnsplashFallback, line 10) is outside the try.
unsplashFallback(q) ==
  IF encodeURIComponent(q) = URIError THEN Threw
  ELSE Returned(unsplashImages(q),
                <<GoogleLink(q), BingLink(q), UnsplashLink(q), LexicaLink(q)>>)

\* the fetch of line 52 is made unless building its URL throws (inside the
\* try, so caught)
FetchMade(query) == LEXICA(NormalizeQuery(query)) # URIError

\* a test that takes any array for a usable answer
LexicaUsableAnyArray(lex, q) == lex.kind = "ok" /\ lex.isArray

\* the Lexica answer gives at least one image with a url (lines 53-57)
LexicaUsable(lex, q) ==
  lex.kind = "ok" /\ lex.isArray /\ Len(lex.images) > 0 /\ Len(normalizeLexica(lex.images, q)) > 0

\* imageSearch_free.js 47-92
searchImagesFree(query, lex) ==
  LET q == NormalizeQuery(query)
  IN IF FetchMade(query) /\ LexicaUsable(lex, q)
       THEN Returned(normalizeLexica(lex.images, q),
                     <<LexicaLink(q), GoogleLink(q), BingLink(q), UnsplashLink(q)>>)
       ELSE unsplashFallback(q)

NoResult == [threw |-> FALSE, images |-> <<>>, sources |-> <<>>]

NoLexica == [kind |-> "none", isArray |-> FALSE, images |-> <<>>]

\* ---------------------------------------------------------- images intent
\* part_000 11-35 (server/realtime_images_patch.js).  The body of
\* POST /realtime: its intent, and its query, a string or something else.
NotAString == <<"<number>">>

\* query is the text after the "images:" prefix, when the body has one
IntentRequests ==
  [intent : {"images", "chat", "<undefined>"}, query : Queries \cup {NotAString}]

\* a test that takes a body without intent for an images request
isImagesIntentLoose(req) == req.intent # "chat"

\* intent === "images", intent defaulting to ""
isImagesIntent(req) == req.intent = "images"

\* (query || "").replace(/^images?:\s*/i, "").trim() || "nature landscape"
intentQuery(req) == IF Trim(req.query) = <<>> THEN <<"nature landscape">> ELSE Trim(req.query)

\* what the middleware has done for the request: responses sent, calls of
\* next(), searches started, and the status of the response
NoIntent == [pc |-> "idle", intent |-> "<undefined>", responses |-> 0, nexts |-> 0, searches |-> 0, status |-> 0]

\* ------------------------------------------------------- checkout session
\* POST /create-checkout-session: part_001 27-60 takes {email, plan},
\* Dockerfile 155-181 takes {user_id}.
PlanKeyed == "PlanKeyed"
UserKeyed == "UserKeyed"
CheckoutVariants == {PlanKeyed, UserKeyed}

\* plan names a request can carry: the two of PLAN_MAP, one of another
\* table, one of no table, none, and a property every object inherits
CheckoutPlans == {"pro", "business", "starter", "gold", NoPlan, "toString"}

CheckoutRequests == [email : Emails, plan : CheckoutPlans, user_id : UserIds \cup {NoId, ""}]

\* PLAN_MAP[plan]: an own entry, a property inherited from Object.prototype
\* (truthy, without priceId or coins), or undefined
PLAN_MAP(plan) ==
  CASE plan = "pro" -> [kind |-> "own", coins |-> 100]
    [] plan = "business" -> [kind |-> "own", coins |-> 250]
    [] plan = "toString" -> [kind |-> "inherited", coins |-> 0]
    [] OTHER -> [kind |-> "undefined", coins |-> 0]

\* !selectedPlan
InvalidPlan(plan) == PLAN_MAP(plan).kind = "undefined"

\* selectedPlan.coins.toString() on a selectedPlan without coins
CoinsToStringThrows(plan) == PLAN_MAP(plan).kind = "inherited"

\* !user_id
MissingCheckoutUser(req) == req.user_id \in {NoId, ""}

NoMeta == [email |-> NoId, plan |-> NoPlan, coins |-> 0, user_id |-> NoId]

\* what the handler has done for the request: the variant, the body,
\* responses sent, calls of stripe.checkout.sessions.create, how the call
\* ended, the response (status, body) and the metadata given to the call
NoCheckout ==
  [pc |-> "idle", variant |-> PlanKeyed, req |-> [email |-> "e1", plan |-> NoPlan, user_id |-> NoId],
   responses |-> 0, calls |-> 0, stripe |-> "none", status |-> 0, body |-> "none", meta |-> NoMeta]

\* ------------------------------------------------------------------ Init
\* The store files are whatever the working directory holds at start:
\* missing, or present and unparsable; well-formed content is what the
\* handlers write.
Init ==
  /\ fs \in [Paths -> {FileAbsent, FileCorrupt}]
  /\ pc = [s \in Servers |-> "idle"]
  /\ loc = [s \in Servers |-> NoLocals]
  /\ mem = [s \in Servers |-> EmptyUsers]
  /\ alive = [s \in Servers |-> TRUE]
  /\ clock = 0
  /\ lastOutcome = NoOutcome
  /\ lastWrite = NoWrite
  /\ applied = NoBatch
  /\ imgPc = "idle"
  /\ imgQuery = <<>>
  /\ imgLexica = NoLexica
  /\ imgResult = NoResult
  /\ ri = NoIntent
  /\ lastCheck = NoCheck
  /\ acked = {}
  /\ co = NoCheckout

\* --------------------------------------------------------------- actions
\* A handler runs from the arrival of the request to its first access of
\* the store file without yielding, so that prefix (signature check, type
\* test, identity extraction, existsSync/readFileSync/JSON.parse) is one
\* step; writeFileSync and the acknowledgement are the steps after it.
Arrives(s) ==
  /\ alive[s]
  /\ pc[s] = "idle"
  /\ clock < MaxDeliveries
  /\ clock' = clock + 1

\* constructEvent throws: 400 "Webhook Error"
Reject(s, r) ==
  /\ Arrives(s)
  /\ ~constructEvent(r)
  /\ lastOutcome' = Outcome(s, Unparsed(r), 400, "webhook_error")
  /\ UNCHANGED <<fs, pc, loc, mem, alive, lastWrite, applied>>
  /\ UNCHANGED <<imgVars, apiVars, lastCheck, acked>>

\* a verified event of another type: straight to res.json({received: true})
Skip(s, r) ==
  /\ Arrives(s)
  /\ constructEvent(r)
  /\ ~isCheckoutCompleted(r)
  /\ lastOutcome' = Outcome(s, Unparsed(r), 200, "received")
  /\ UNCHANGED <<fs, pc, loc, mem, alive, lastWrite, applied>>
  /\ UNCHANGED <<imgVars, apiVars, lastCheck, acked>>

\* server.js 38-41: 400 "Missing user_id"
RejectMissingUserId(s, r) ==
  /\ Arrives(s)
  /\ constructEvent(r)
  /\ isCheckoutCompleted(r)
  /\ MissingUserId(s, r)
  /\ lastOutcome' = Outcome(s, Locals(s, r), 400, "missing_user_id")
  /\ UNCHANGED <<fs, pc, loc, mem, alive, lastWrite, applied>>
  /\ UNCHANGED <<imgVars, apiVars, lastCheck, acked>>

\* a verified checkout.session.completed event, the store file being absent
\* or well-formed: users = {} or the parsed file
ReadStore(s, r) ==
  /\ Arrives(s)
  /\ constructEvent(r)
  /\ isCheckoutCompleted(r)
  /\ ~MissingUserId(s, r)
  /\ fs[StorePath(s)].st # "corrupt"
  /\ loc' = [loc EXCEPT ![s] = [Locals(s, r) EXCEPT !.reads = 1]]
  /\ mem' = [mem EXCEPT ![s] = IF fs[StorePath(s)].st = "ok" THEN fs[StorePath(s)].data ELSE EmptyUsers]
  /\ pc' = [pc EXCEPT ![s] = "write"]
  /\ UNCHANGED <<fs, alive, lastOutcome, lastWrite, applied>>
  /\ UNCHANGED <<imgVars, apiVars, lastCheck, acked>>

\* Stripe delivers once more the event this handler applied last (same
\* event id, same payload, valid signature): the handler takes the same
\* path as on the first delivery.
Redeliver(s) ==
  /\ Arrives(s)
  /\ lastWrite.srv = s
  /\ loc' = [loc EXCEPT ![s] = [lastWrite.loc EXCEPT !.retry = TRUE, !.reads = 1, !.writes = 0]]
  /\ mem' = [mem EXCEPT ![s] = fs[StorePath(s)].data]
  /\ pc' = [pc EXCEPT ![s] = "write"]
  /\ UNCHANGED <<fs, alive, lastOutcome, lastWrite, applied>>
  /\ UNCHANGED <<imgVars, apiVars, lastCheck, acked>>

\* a verified checkout.session.completed event, JSON.parse throwing on a
\* malformed store file
ReadCorrupt(s, r) ==
  /\ Arrives(s)
  /\ constructEvent(r)
  /\ isCheckoutCompleted(r)
  /\ ~MissingUserId(s, r)
  /\ fs[StorePath(s)].st = "corrupt"
  /\ \E o \in ThrowOutcomes(s) :
       /\ lastOutcome' = Outcome(s, [Locals(s, r) EXCEPT !.reads = 1],
                                 IF o = "error500" THEN 500 ELSE 0, o)
       /\ alive' = [alive EXCEPT ![s] = (o # "crashed")]
  /\ UNCHANGED <<fs, pc, loc, mem, lastWrite, applied>>
  /\ UNCHANGED <<imgVars, apiVars, lastCheck, acked>>

\* the in-memory update followed by fs.writeFileSync(JSON.stringify(users))
WriteStore(s) ==
  /\ alive[s]
  /\ pc[s] = "write"
  /\ fs' = [fs EXCEPT ![StorePath(s)] = FileOk(Apply(s, mem[s], loc[s], clock))]
  /\ pc' = [pc EXCEPT ![s] = "ack"]
  /\ loc' = [loc EXCEPT ![s].writes = 1]
  /\ mem' = [mem EXCEPT ![s] = EmptyUsers]
  /\ lastWrite' = [srv |-> s, loc |-> loc[s]]
  /\ UNCHANGED <<alive, clock, lastOutcome, applied>>
  /\ UNCHANGED <<imgVars, apiVars, lastCheck, acked>>

\* res.json({ received: true }) at the end of the handler
Ack(s) ==
  /\ alive[s]
  /\ pc[s] = "ack"
  /\ lastOutcome' = Outcome(s, loc[s], 200, "received")
  /\ applied' = Batched(applied, s, loc[s])
  /\ pc' = [pc EXCEPT ![s] = "idle"]
  /\ loc' = [loc EXCEPT ![s] = NoLocals]
  /\ acked' = (IF s \in CheckServers /\ ~loc[s].anon THEN acked \cup {StorePath(s)} ELSE acked)
  /\ UNCHANGED <<fs, mem, alive, clock, lastWrite>>
  /\ UNCHANGED <<imgVars, apiVars, lastCheck>>

\* POST /check-paid, a handler without await: the store file is read and
\* the answer sent in one step.  The process runs one handler at a time, so
\* none of its webhook deliveries is under way.
CheckPaid(s, user_id) ==
  /\ alive[s]
  /\ pc[s] = "idle"
  /\ lastCheck' = checkPaid(s, user_id, fs[StorePath(s)], StorePath(s) \in acked)
  /\ UNCHANGED <<fs, pc, loc, mem, alive, clock, lastOutcome, lastWrite, applied, acked>>
  /\ UNCHANGED <<imgVars, apiVars>>

Next ==
  \/ \E s \in Servers, r \in Requests : Reject(s, r)
  \/ \E s \in Servers, r \in Requests : Skip(s, r)
  \/ \E s \in Servers, r \in Requests : RejectMissingUserId(s, r)
  \/ \E s \in Servers, r \in Requests : ReadStore(s, r)
  \/ \E s \in Servers, r \in Requests : ReadCorrupt(s, r)
  \/ \E s \in Servers : Redeliver(s)
  \/ \E s \in Servers : WriteStore(s)
  \/ \E s \in Servers : Ack(s)

Spec == Init /\ [][Next]_vars

\* ---- the webhook servers together with their POST /check-paid endpoints
NextPaid ==
  \/ Next
  \/ \E s \in CheckServers, u \in UserIds \cup {NoId} : CheckPaid(s, u)

SpecPaid == Init /\ [][NextPaid]_vars

\* ---- the image search on its own: one call of searchImagesFree per run
InitImg ==
  /\ Init
  /\ fs = [p \in Paths |-> FileAbsent]

Search(query, lex) ==
  /\ imgPc = "idle"
  /\ imgQuery' = query
  /\ imgLexica' = (IF FetchMade(query) THEN lex ELSE NoLexica)
  /\ imgResult' = searchImagesFree(query, lex)
  /\ imgPc' = "done"
  /\ UNCHANGED <<hookVars, apiVars>>

NextImg == \E query \in Queries, lex \in LexicaOutcomes : Search(query, lex)

SpecImg == InitImg /\ [][NextImg]_vars

\* ---- the endpoints that keep no store: one request per run, at the images
\* intent or at a checkout session endpoint (they share no state)
\* if (intent !== "images") return next()
IntentNext(req) ==
  /\ ri.pc = "idle" /\ co.pc = "idle"
  /\ ~isImagesIntent(req)
  /\ ri' = [ri EXCEPT !.pc = "done", !.intent = req.intent, !.nexts = ri.nexts + 1]
  /\ UNCHANGED <<hookVars, imgVars, co>>

\* intent "images" and the try block throws before any await: replace is
\* no method of a query that is no string, and imageFreeSearch is no
\* function where the import of a name imageSearch_free.js does not export
\* yields undefined.  catch: 500 {error: "images intent failed"}
IntentThrows(req) ==
  /\ ri.pc = "idle" /\ co.pc = "idle"
  /\ isImagesIntent(req)
  /\ ri' = [ri EXCEPT !.pc = "done", !.intent = req.intent, !.responses = ri.responses + 1,
                       !.status = 500]
  /\ UNCHANGED <<hookVars, imgVars, co>>

\* intent "images", the imported name bound to the search function: the
\* search is started and awaited
IntentSearch(req, lex) ==
  /\ ri.pc = "idle" /\ co.pc = "idle"
  /\ isImagesIntent(req)
  /\ req.query # NotAString
  /\ imgQuery' = intentQuery(req)
  /\ imgLexica' = (IF FetchMade(intentQuery(req)) THEN lex ELSE NoLexica)
  /\ imgResult' = searchImagesFree(intentQuery(req), lex)
  /\ ri' = [ri EXCEPT !.pc = "awaiting", !.intent = req.intent, !.searches = ri.searches + 1]
  /\ UNCHANGED <<hookVars, imgPc, co>>

\* the await ends: res.json({markdown, cards, steps}), or the catch's 500
\* when the search rejected
IntentRespond ==
  /\ ri.pc = "awaiting"
  /\ ri' = [ri EXCEPT !.pc = "done", !.responses = ri.responses + 1,
                       !.status = IF imgResult.threw THEN 500 ELSE 200]
  /\ UNCHANGED <<hookVars, imgVars, co>>

\* part_001 32-34 and Dockerfile 157: 400 before any call
CheckoutReject(v, req) ==
  /\ ri.pc = "idle" /\ co.pc = "idle"
  /\ IF v = PlanKeyed THEN InvalidPlan(req.plan) ELSE MissingCheckoutUser(req)
  /\ co' = [co EXCEPT !.pc = "done", !.variant = v, !.req = req, !.responses = co.responses + 1,
                       !.status = 400, !.body = "error"]
  /\ UNCHANGED <<hookVars, imgVars, ri>>

\* part_001 36-52: building the argument of the call throws a TypeError
\* (selectedPlan.coins is undefined), caught at 56: 500, the call not made
CheckoutArgumentThrows(v, req) ==
  /\ ri.pc = "idle" /\ co.pc = "idle"
  /\ v = PlanKeyed
  /\ ~InvalidPlan(req.plan)
  /\ CoinsToStringThrows(req.plan)
  /\ co' = [co EXCEPT !.pc = "done", !.variant = v, !.req = req, !.responses = co.responses + 1,
                       !.status = 500, !.body = "error"]
  /\ UNCHANGED <<hookVars, imgVars, ri>>

\* stripe.checkout.sessions.create is called and awaited; metadata is
\* {email, plan, coins: the decimal string of the plan's coins} in part_001
\* and {user_id} in Dockerfile
CheckoutCall(v, req) ==
  /\ ri.pc = "idle" /\ co.pc = "idle"
  /\ IF v = PlanKeyed THEN ~InvalidPlan(req.plan) /\ ~CoinsToStringThrows(req.plan)
                       ELSE ~MissingCheckoutUser(req)
  /\ co' = [co EXCEPT !.pc = "awaiting", !.variant = v, !.req = req, !.calls = co.calls + 1,
                       !.meta = IF v = PlanKeyed
                                  THEN [NoMeta EXCEPT !.email = req.email, !.plan = req.plan,
                                                      !.coins = PLAN_MAP(req.plan).coins]
                                  ELSE [NoMeta EXCEPT !.user_id = req.user_id]]
  /\ UNCHANGED <<hookVars, imgVars, ri>>

\* the call resolves: res.json({ url: session.url })
CheckoutUrl ==
  /\ co.pc = "awaiting"
  /\ co' = [co EXCEPT !.pc = "done", !.stripe = "ok", !.responses = co.responses + 1,
                       !.status = 200, !.body = "url"]
  /\ UNCHANGED <<hookVars, imgVars, ri>>

\* the call rejects: catch, 500
CheckoutFails ==
  /\ co.pc = "awaiting"
  /\ co' = [co EXCEPT !.pc = "done", !.stripe = "failed", !.responses = co.responses + 1,
                       !.status = 500, !.body = "error"]
  /\ UNCHANGED <<hookVars, imgVars, ri>>

NextApi ==
  \/ \E req \in IntentRequests : IntentNext(req)
  \/ \E req \in IntentRequests : IntentThrows(req)
  \/ \E req \in IntentRequests, lex \in LexicaOutcomes : IntentSearch(req, lex)
  \/ IntentRespond
  \/ \E v \in CheckoutVariants, req \in CheckoutRequests : CheckoutReject(v, req)
  \/ \E v \in CheckoutVariants, req \in CheckoutRequests : CheckoutArgumentThrows(v, req)
  \/ \E v \in CheckoutVariants, req \in CheckoutRequests : CheckoutCall(v, req)
  \/ CheckoutUrl
  \/ CheckoutFails

SpecApi == InitImg /\ [][NextApi]_vars

TypeOK ==
  /\ \A s \in Servers : pc[s] \in {"idle", "write", "ack"}
  /\ clock \in 0..MaxDeliveries

\* ------------------------------------------------------------ properties
UsersJson == fs[USER_DB_PATH]

StoredAt(s, k) == fs[StorePath(s)].data[k]

\* the step in which handler s writes its store file
Writes(s) == pc[s] = "write" /\ pc'[s] = "ack"

KnownPlans == {"starter", "pro", "business"}

\* C1: a redelivery of the event a handler applied last for a user (same
\* event id, same payload), arriving with nothing written in between,
\* leaves the stored record of that user as the first delivery left it.
C1_RedeliveryIsNoOp ==
  [][\A s \in Servers :
       (Writes(s) /\ loc[s].retry /\ ~loc[s].anon /\ lastWrite.srv = s)
         => fs'[StorePath(s)].data[loc[s].key] = fs[StorePath(s)].data[loc[s].key]]_vars

\* C2: once every handler is idle again, N applied deliveries of distinct
\* events for one key, each worth d coins, have raised that key's balance
\* from 0 (no record at start) to exactly N*d.
C2_NoLostUpdates ==
  ((\A s \in Servers : pc[s] = "idle") /\ applied.uniform /\ applied.n > 0)
    => /\ UsersJson.st = "ok"
       /\ UsersJson.data[applied.key].ck = "num"
       /\ UsersJson.data[applied.key].coins = applied.n * applied.d

\* C3: a request whose signature check fails is answered 400 without any
\* read or write of the store file, and no handler ever gets past the check
\* with such a request.
C3_BadSignatureRejected ==
  /\ (lastOutcome.kind # "none" /\ ~lastOutcome.req.sig)
       => (lastOutcome.status = 400 /\ lastOutcome.req.reads = 0 /\ lastOutcome.req.writes = 0)
  /\ \A s \in Servers : pc[s] # "idle" => loc[s].sig

\* a forged delivery was rejected by the paid_users.json server while a
\* record applied earlier sits in users.json, untouched
C3_Witness ==
  /\ lastOutcome.kind = "webhook_error"
  /\ lastOutcome.srv = ServerJs
  /\ ~lastOutcome.req.sig
  /\ lastOutcome.status = 400
  /\ UsersJson.st = "ok"
  /\ UsersJson.data["u1"].exists

\* C4: a coin-crediting handler that applies an event for a user key with
\* no record leaves a record for that key with coins equal to the plan's coin
\* delta and the paid flag set.
C4_UnknownKeyBootstrap ==
  [][\A s \in CoinHandlers :
       (Writes(s) /\ ~loc[s].anon /\ ~StoredAt(s, loc[s].key).exists
          /\ ~mem[s][loc[s].key].exists)
         => LET new == fs'[StorePath(s)].data[loc[s].key]
            IN new.exists /\ new.ck = "num" /\ new.coins = CoinDelta(s, loc[s]) /\ new.paid]_vars

C6_MissingIdentityIsError ==
  (lastOutcome.status # 0 /\ lastOutcome.req.sig /\ lastOutcome.req.type = Completed
     /\ lastOutcome.req.anon)
    => (lastOutcome.status >= 400 /\ lastOutcome.req.writes = 0)

\* C7: a plan-reading handler applying a user's event whose plan is none of
\* starter, pro, business leaves the balance it read unchanged (0 for a new
\* record) and sets the paid flag.
C7_UnknownPlanPolicy ==
  [][\A s \in ReadsPlan :
       (Writes(s) /\ ~loc[s].anon /\ loc[s].plan \notin KnownPlans)
         => LET old == mem[s][loc[s].key]
                new == fs'[StorePath(s)].data[loc[s].key]
            IN /\ new.exists
               /\ new.ck = "num"
               /\ new.coins = (IF old.exists /\ old.ck = "num" THEN old.coins ELSE 0)
               /\ new.paid]_vars

\* the effect of an applied event in the store file of its handler
HasEffect(s, l) ==
  /\ fs[StorePath(s)].st = "ok"
  /\ StoredAt(s, l.key).exists
  /\ (s \in PaidHandlers => StoredAt(s, l.key).paid)
  /\ (s \in CoinHandlers => (StoredAt(s, l.key).ck = "num" /\ StoredAt(s, l.key).coins >= CoinDelta(s, l)))

\* C8: whenever the latest response is the acknowledgement of a user's
\* applied event, the handler's write for it has been made and the store file
\* holds the event's effect (record present, paid flag, coins credited).
C8_WriteBeforeAck ==
  (lastOutcome.kind = "received" /\ lastOutcome.req.type = Completed /\ ~lastOutcome.req.anon)
    => (lastOutcome.req.writes = 1 /\ HasEffect(lastOutcome.srv, lastOutcome.req))

\* C9: a delivery that found the store file unparsable was answered with a
\* 5xx status, the file is as it was, and the process is still up.
C9_CorruptStoreHandled ==
  (lastOutcome.kind \in {"error500", "hung", "crashed"})
    => /\ lastOutcome.status >= 500
       /\ fs[StorePath(lastOutcome.srv)].st = "corrupt"
       /\ alive[lastOutcome.srv]

\* the urls of the images returned
ResultUrls == [i \in 1..Len(imgResult.images) |-> imgResult.images[i].url]

PairwiseDistinct(s) == \A i, j \in 1..Len(s) : i # j => s[i] # s[j]

\* the number of tiles the images intent says it returns
MaxTiles == 24

\* C10: whatever the providers answer, the images returned have pairwise
\* distinct urls and are at most 24.
C10_BoundedDistinctImages ==
  imgPc = "done" => (PairwiseDistinct(ResultUrls) /\ Len(ResultUrls) <= MaxTiles)

\* the query as searchImagesFree uses it
ResultQuery == NormalizeQuery(imgQuery)

\* the four search-engine links of the fallback answer
StaticSources ==
  <<GoogleLink(ResultQuery), BingLink(ResultQuery), UnsplashLink(ResultQuery), LexicaLink(ResultQuery)>>

\* C11: when Lexica answers 2xx with an empty image list, the result is the
\* one the Unsplash fallback alone gives for the query: returned, not thrown,
\* with pairwise distinct urls and at most 24 images.
C11_EmptyPrimaryIsFallback ==
  (imgPc = "done" /\ imgLexica = LexicaOk(<<>>))
    => /\ ~imgResult.threw
       /\ imgResult = unsplashFallback(ResultQuery)
       /\ imgResult.sources = StaticSources
       /\ PairwiseDistinct(ResultUrls)
       /\ Len(ResultUrls) <= MaxTiles

\* Lexica answered with an empty list and the twelve fallback images came
\* back, the eleventh reusing the first keyword under another sig
C11_Witness ==
  /\ imgPc = "done"
  /\ imgLexica = LexicaOk(<<>>)
  /\ imgQuery = <<" ", "a">>
  /\ Len(imgResult.images) = UnsplashCount
  /\ imgResult.images[11].url.arg = imgResult.images[1].url.arg
  /\ imgResult.images[11].url # imgResult.images[1].url

\* the Lexica call failed: fetch threw, the answer was not 2xx, or its body
\* was no JSON
LexicaFailed == imgPc = "done" /\ imgLexica.kind \in {"throws", "non2xx", "badjson"}

\* C12 as stated: when the provider call fails, searchImagesFree returns,
\* without throwing, an empty images list and four static sources.
C12_TotalFailureEmpty ==
  LexicaFailed
    => (~imgResult.threw /\ imgResult.images = <<>> /\ imgResult.sources = StaticSources)

\* C12 amended: when the Lexica call fails, searchImagesFree returns,
\* without throwing, the twelve Unsplash Source images built from the query
\* and the four static sources.
C12_FailureGivesFallback ==
  LexicaFailed
    => /\ ~imgResult.threw
       /\ Len(imgResult.images) = UnsplashCount
       /\ imgResult.images = unsplashImages(ResultQuery)
       /\ \A i \in 1..Len(imgResult.images) : imgResult.images[i].source = "unsplash.com"
       /\ imgResult.sources = StaticSources

\* fetch threw for the empty query and the fallback answered for "image"
C12_Witness ==
  /\ imgPc = "done"
  /\ imgLexica.kind = "throws"
  /\ imgQuery = <<>>
  /\ ~imgResult.threw
  /\ Len(imgResult.images) = UnsplashCount
  /\ imgResult.images[1].title = <<"image">>

\* C13: for every query and every outcome of the Lexica call,
\* searchImagesFree returns a non-empty images list.
C13_AlwaysImages ==
  imgPc = "done" => (~imgResult.threw /\ Len(imgResult.images) > 0)

\* a Lexica image object with a url under one of the four members
Normalizable(im) ==
  im.src # Missing \/ im.imageUrl # Missing \/ im.jpeg # Missing \/ im.png # Missing

\* Lexica answered 2xx with a JSON body holding an image that has a url
LexicaAnsweredImages ==
  /\ imgLexica.kind = "ok"
  /\ \E i \in 1..Len(imgLexica.images) : Normalizable(imgLexica.images[i])

AllFrom(source) ==
  /\ Len(imgResult.images) > 0
  /\ \A i \in 1..Len(imgResult.images) : imgResult.images[i].source = source

\* C15: once the Lexica call has been made, searchImagesFree returns
\* normally whatever the call's outcome; the images are Lexica's exactly
\* when Lexica answered 2xx with at least one normalizable image, and the
\* Unsplash fallback's otherwise.
C15_FallbackDecision ==
  (imgPc = "done" /\ imgLexica.kind # "none")
    => /\ ~imgResult.threw
       /\ (LexicaAnsweredImages => (AllFrom("lexica.art") /\ imgResult.sources[1] = LexicaLink(ResultQuery)))
       /\ (~LexicaAnsweredImages => (AllFrom("unsplash.com") /\ imgResult.sources = StaticSources))

\* Lexica answered with one image that has nothing but a png url, and that
\* image came back
C15_Witness ==
  /\ imgPc = "done"
  /\ imgLexica = LexicaOk(<<LexicaItem(Missing, Missing, Missing, 4, 7, Missing)>>)
  /\ Len(imgResult.images) = 1
  /\ imgResult.images[1].url = 4
  /\ imgResult.images[1].source = "lexica.art"

C18_KeyIsolation ==
  [][\A s \in Servers :
       Writes(s) => \A k \in Keys \ {loc[s].key} :
                      fs'[StorePath(s)].data[k] = fs[StorePath(s)].data[k]]_vars

\* C19: a verified event of another type than checkout.session.completed
\* is answered 200 {received: true} with the store file neither read nor
\* written, and no handler goes on to the store with such an event.
C19_OtherTypesIgnored ==
  /\ (lastOutcome.kind # "none" /\ lastOutcome.req.sig /\ lastOutcome.req.type # Completed)
       => /\ lastOutcome.status = 200
          /\ lastOutcome.kind = "received"
          /\ lastOutcome.req.reads = 0
          /\ lastOutcome.req.writes = 0
  /\ \A s \in Servers : pc[s] # "idle" => loc[s].type = Completed

\* the email-keyed handler acknowledged an event of another type while the
\* record an earlier delivery wrote sits in users.json
C19_Witness ==
  /\ lastOutcome.kind = "received"
  /\ lastOutcome.srv = EmailKeyed
  /\ lastOutcome.req.type = OtherType
  /\ lastOutcome.req.reads = 0
  /\ UsersJson.st = "ok"
  /\ UsersJson.data["u1"].exists
  /\ UsersJson.data["u1"].coins = 150

\* the plans the plan-keyed endpoint sells
AcceptedPlans == {"pro", "business"}

\* the request the checkout endpoint is to refuse
RefusedCheckout ==
  IF co.variant = PlanKeyed THEN co.req.plan \notin AcceptedPlans
  ELSE co.req.user_id \in {NoId, ""}

\* C14: a checkout session request gets one response, never two; an invalid
\* plan (plan-keyed) or a missing user_id (id-keyed) gets 400 with the
\* session-creation call not made; a failing call gets 500; {url} is sent
\* only after a successful call.
C14_CheckoutOutcomes ==
  /\ co.responses <= 1
  /\ co.pc = "done"
       => /\ co.responses = 1
          /\ (RefusedCheckout => (co.status = 400 /\ co.calls = 0))
          /\ (co.stripe = "failed" => co.status = 500)
          /\ (co.body = "url" => (co.stripe = "ok" /\ co.calls = 1 /\ co.status = 200))

\* C16: a request whose intent is not "images" ends with one call of
\* next(), no response and no search; a request whose intent is "images"
\* ends with one response and no call of next(); never both a response and
\* a call of next().
C16_IntentDispatch ==
  /\ ri.responses + ri.nexts <= 1
  /\ (ri.pc = "awaiting" => (ri.intent = "images" /\ ri.responses = 0 /\ ri.nexts = 0))
  /\ (ri.pc = "done" /\ ri.intent # "images")
       => (ri.nexts = 1 /\ ri.responses = 0 /\ ri.searches = 0)
  /\ (ri.pc = "done" /\ ri.intent = "images")
       => (ri.responses = 1 /\ ri.nexts = 0 /\ ri.status \in {200, 500})

\* an images request was answered 200 after its search, for the query the
\* middleware puts in place of an empty one
C16_Witness ==
  /\ ri.pc = "done"
  /\ ri.intent = "images"
  /\ ri.searches = 1
  /\ ri.responses = 1
  /\ ri.nexts = 0
  /\ ri.status = 200
  /\ imgQuery = <<"nature landscape">>

\* C20: the coins the plan-keyed checkout endpoint writes in the session
\* metadata are the coins the email-keyed webhook handler credits for the
\* session's plan.
C20_CoinTablesAgree ==
  (co.variant = PlanKeyed /\ co.calls = 1)
    => co.meta.coins = CoinDelta(EmailKeyed, [plan |-> co.meta.plan])
====
